---- MODULE Spec2Model ----
(***************************************************************************)
(* A model of the parhelia ray tracer: sphere intersection, the World's    *)
(* nearest-hit and occlusion queries, the direct-light gate, the recursive *)
(* colour integrator ray_color and the scanline loop of main.              *)
(*                                                                         *)
(* Numbers.  Points and vectors are pairs of integers (the x and y         *)
(* components; nothing in the scenes below moves in z).  Every scene is    *)
(* built from spheres of radius 1 or -1 centred on lattice points and from *)
(* rays that run along the x axis, so every square root taken by           *)
(* Sphere::hit is the root of a perfect square and every quotient is       *)
(* exact: the model computes the same numbers as the f64 code.  A ray      *)
(* parameter t is kept in units of 1/TScale, which makes the literal 0.001 *)
(* of the source the integer T_MIN.  A colour is c / 10^e, component-wise, *)
(* so that products of attenuations stay exact.                            *)
(***************************************************************************)
EXTENDS Integers, Sequences, FiniteSets, TLC

VARIABLES
    world,      \* World = Vec<Box<dyn Hit>>: the sequence of spheres
    lights,     \* Lighting = Vec<Box<dyn Light>>: the sequence of lights
    pc,         \* position of the running operation
    q,          \* the arguments of the query under test (query harnesses)
    res,        \* the value the query returned (query harnesses)
    stack,      \* ray_color's call stack, innermost frame last
    ret,        \* the colour returned by the outermost ray_color call
    calls,      \* how often the world, the lights and scatter were consulted
    row,        \* main: the scanline j being rendered
    computed,   \* main: columns of the current scanline whose closure has run
    scanline,   \* main: the collected Vec<Color> of the current scanline
    emitted     \* main: the pixel lines printed so far, as <<i, j>>

vars == <<world, lights, pc, q, res, stack, ret, calls,
          row, computed, scanline, emitted>>

-----------------------------------------------------------------------------
(* Bounds of the model *)

MaxWorld == 3
MaxLights == 2
MaxScene == 2
MaxDepth == 3
Width == 2
Height == 2
JitterScale == 2

(* Program constants *)

TScale == 1000
T_MIN == 1
Infinity == 1000000

None == [none |-> TRUE]

-----------------------------------------------------------------------------
(* Vec3 and Ray: vec3.rs and ray.rs are not part of the sources at hand;   *)
(* the operators follow their use in the code and the spec's description.  *)

Vec(x, y) == <<x, y>>
Add(u, v) == <<u[1] + v[1], u[2] + v[2]>>
Sub(u, v) == <<u[1] - v[1], u[2] - v[2]>>
Scale(k, v) == <<k * v[1], k * v[2]>>
Dot(u, v) == u[1] * v[1] + u[2] * v[2]

\* exact quotient, also for a negative divisor
DivExact(a, b) == IF b < 0 THEN (-a) \div (-b) ELSE a \div b
DivVec(v, k) == <<DivExact(v[1], k), DivExact(v[2], k)>>

\* f64::sqrt on the perfect squares the scenes produce
Sqrt(n) == CHOOSE s \in 0..n : s * s <= n /\ (s + 1) * (s + 1) > n

Length(v) == Sqrt(Dot(v, v))
\* v.length().powi(2)
LengthPow2(v) == Dot(v, v)
Normalized(v) == DivVec(v, Length(v))
\* v - 2 (v . n) n
Reflect(v, n) == Sub(v, Scale(2 * Dot(v, n), n))

Ray(origin, direction) == [origin |-> origin, direction |-> direction]
\* origin + t * direction, t in units of 1/TScale
At(r, t) == Add(r.origin, DivVec(Scale(t, r.direction), TScale))

-----------------------------------------------------------------------------
(* Colours *)

Color(r, g, b) == [c |-> <<r, g, b>>, e |-> 1]
Black == [c |-> <<0, 0, 0>>, e |-> 0]
White == [c |-> <<1, 1, 1>>, e |-> 0]

RECURSIVE Pow10(_)
Pow10(k) == IF k = 0 THEN 1 ELSE 10 * Pow10(k - 1)

IsBlack(col) == col.c = <<0, 0, 0>>
\* component-wise product
MulColor(a, b) ==
    [c |-> <<a.c[1] * b.c[1], a.c[2] * b.c[2], a.c[3] * b.c[3]>>, e |-> a.e + b.e]
\* k * colour for an integer k
ScaleColor(k, a) == [c |-> <<k * a.c[1], k * a.c[2], k * a.c[3]>>, e |-> a.e]
AddColor(a, b) ==
    LET e == IF a.e > b.e THEN a.e ELSE b.e
        x == ScaleColor(Pow10(e - a.e), a)
        y == ScaleColor(Pow10(e - b.e), b)
    IN  [c |-> <<x.c[1] + y.c[1], x.c[2] + y.c[2], x.c[3] + y.c[3]>>, e |-> e]

-----------------------------------------------------------------------------
(* Materials.  ir is the refractive index as <<numerator, denominator>>; d,  *)
(* s and d_s are the Phong coefficients, which setup_hollow_sphere sets to  *)
(* 1.0, 0.0 and 1.0; B = shine / g is 0.5 / 4, kept as g and 1 / B.         *)

Lambertian(albedo) ==
    [kind |-> "Lambertian", albedo |-> albedo, fuzz |-> 0, occlusion |-> 0]
Metal(albedo, fuzz) ==
    [kind |-> "Metal", albedo |-> albedo, fuzz |-> fuzz, occlusion |-> 0]
Dielectric(ir, occlusion) ==
    [kind |-> "Dielectric", ir |-> ir, occlusion |-> occlusion]
PhongMat(d, s, g, invB, albedo, fuzz, d_s, occlusion) ==
    [kind |-> "Phong", d |-> d, s |-> s, g |-> g, invB |-> invB,
     albedo |-> albedo, fuzz |-> fuzz, d_s |-> d_s, occlusion |-> occlusion]

\* the materials of setup_hollow_sphere
mat_centre == Lambertian(Color(1, 2, 5))
mat_left == Dielectric(<<3, 2>>, 1)
mat_right == Metal(Color(8, 6, 2), 0)
mat_phong == PhongMat(1, 0, 4, 8, Color(1, 2, 5), 0, 1, 0)

-----------------------------------------------------------------------------
(* Sphere and HitRecord *)

Sphere(centre, radius, mat) == [centre |-> centre, radius |-> radius, mat |-> mat]

HitRecord(p, normal, mat, t, front_face) ==
    [p |-> p, normal |-> normal, mat |-> mat, t |-> t, front_face |-> front_face]

\* set_face_normal that records the face but never flips the normal
set_face_normal_NoFlip(rec, r, outward_normal) ==
    [rec EXCEPT !.front_face = Dot(r.direction, outward_normal) < 0,
                !.normal = outward_normal]

set_face_normal(rec, r, outward_normal) ==
    LET front_face == Dot(r.direction, outward_normal) < 0
    IN  [rec EXCEPT !.front_face = front_face,
                    !.normal = IF front_face THEN outward_normal
                               ELSE Scale(-1, outward_normal)]

\* the two roots (-half_b -/+ sqrtd) / a, in units of 1/TScale
Root(half_b, sqrtd, a, sign) == DivExact((-half_b + sign * sqrtd) * TScale, a)

\* Sphere::hit that also rejects a root equal to t_max
SphereHit_StrictMax(s, r, t_min, t_max) ==
    LET x == Sub(r.origin, s.centre)
        a == LengthPow2(r.direction)
        half_b == Dot(r.direction, x)
        c == LengthPow2(x) - s.radius * s.radius
        discrim == half_b * half_b - a * c
    IN  IF discrim < 0 THEN None
        ELSE
          LET sqrtd == Sqrt(discrim)
              root1 == Root(half_b, sqrtd, a, -1)
              root2 == Root(half_b, sqrtd, a, 1)
              out1 == root1 < t_min \/ root1 >= t_max
              out2 == root2 < t_min \/ root2 >= t_max
              root == IF out1 THEN root2 ELSE root1
          IN  IF out1 /\ out2 THEN None
              ELSE
                LET rec == HitRecord(At(r, root), Vec(0, 0), s.mat, root, FALSE)
                    outward_normal == DivVec(Sub(rec.p, s.centre), s.radius)
                IN  set_face_normal(rec, r, outward_normal)

\* Sphere::hit that gives up when the smaller root is out of range
SphereHit_NoSecondRoot(s, r, t_min, t_max) ==
    LET x == Sub(r.origin, s.centre)
        a == LengthPow2(r.direction)
        half_b == Dot(r.direction, x)
        c == LengthPow2(x) - s.radius * s.radius
        discrim == half_b * half_b - a * c
    IN  IF discrim < 0 THEN None
        ELSE
          LET sqrtd == Sqrt(discrim)
              root == Root(half_b, sqrtd, a, -1)
          IN  IF root < t_min \/ root > t_max THEN None
              ELSE
                LET rec == HitRecord(At(r, root), Vec(0, 0), s.mat, root, FALSE)
                    outward_normal == DivVec(Sub(rec.p, s.centre), s.radius)
                IN  set_face_normal(rec, r, outward_normal)

SphereHit(s, r, t_min, t_max) ==
    LET x == Sub(r.origin, s.centre)
        a == LengthPow2(r.direction)
        half_b == Dot(r.direction, x)
        c == LengthPow2(x) - s.radius * s.radius
        discrim == half_b * half_b - a * c
    IN  IF discrim < 0 THEN None
        ELSE
          LET sqrtd == Sqrt(discrim)
              root1 == Root(half_b, sqrtd, a, -1)
              root2 == Root(half_b, sqrtd, a, 1)
              out1 == root1 < t_min \/ root1 > t_max
              out2 == root2 < t_min \/ root2 > t_max
              root == IF out1 THEN root2 ELSE root1
          IN  IF out1 /\ out2 THEN None
              ELSE
                LET rec == HitRecord(At(r, root), Vec(0, 0), s.mat, root, FALSE)
                    outward_normal == DivVec(Sub(rec.p, s.centre), s.radius)
                IN  set_face_normal(rec, r, outward_normal)

-----------------------------------------------------------------------------
(* World queries *)

\* World::hit that keeps the upper bound at t_max instead of narrowing it
RECURSIVE WorldHitFrom_NoNarrow(_, _, _, _, _, _)
WorldHitFrom_NoNarrow(w, i, r, t_min, tmp_rec, closest_so_far) ==
    IF i > Len(w) THEN tmp_rec
    ELSE LET rec == SphereHit(w[i], r, t_min, closest_so_far)
         IN  IF rec # None
             THEN WorldHitFrom_NoNarrow(w, i + 1, r, t_min, rec, closest_so_far)
             ELSE WorldHitFrom_NoNarrow(w, i + 1, r, t_min, tmp_rec, closest_so_far)

\* the scan of World::hit from object i on, with the loop's two locals
RECURSIVE WorldHitFrom(_, _, _, _, _, _)
WorldHitFrom(w, i, r, t_min, tmp_rec, closest_so_far) ==
    IF i > Len(w) THEN tmp_rec
    ELSE LET rec == SphereHit(w[i], r, t_min, closest_so_far)
         IN  IF rec # None
             THEN WorldHitFrom(w, i + 1, r, t_min, rec, rec.t)
             ELSE WorldHitFrom(w, i + 1, r, t_min, tmp_rec, closest_so_far)

WorldHit(w, r, t_min, t_max) == WorldHitFrom(w, 1, r, t_min, None, t_max)

\* World::occluding_hit that goes on scanning past an object that does not block
RECURSIVE OccludingScan_AnyBlocker(_, _, _, _, _, _)
OccludingScan_AnyBlocker(w, i, r, lp, t_min, t_max) ==
    IF i > Len(w) THEN [blocked |-> FALSE, consulted |-> Len(w)]
    ELSE LET rec == SphereHit(w[i], r, t_min, t_max)
         IN  IF rec # None /\ rec.mat.occlusion = 0
                /\ Dot(r.direction, Sub(lp, rec.p)) > 0
             THEN [blocked |-> TRUE, consulted |-> i]
             ELSE OccludingScan_AnyBlocker(w, i + 1, r, lp, t_min, t_max)

\* the scan of World::occluding_hit from object i on: what it returns, and the
\* number of objects whose hit was called
RECURSIVE OccludingScan(_, _, _, _, _, _)
OccludingScan(w, i, r, lp, t_min, t_max) ==
    IF i > Len(w) THEN [blocked |-> FALSE, consulted |-> Len(w)]
    ELSE LET rec == SphereHit(w[i], r, t_min, t_max)
         IN  IF rec # None
             THEN [blocked |-> rec.mat.occlusion = 0
                               /\ Dot(r.direction, Sub(lp, rec.p)) > 0,
                   consulted |-> i]
             ELSE OccludingScan(w, i + 1, r, lp, t_min, t_max)

OccludingHit(w, r, lp, t_min, t_max) == OccludingScan(w, 1, r, lp, t_min, t_max).blocked

-----------------------------------------------------------------------------
(* Lights and the direct-light gate *)

SimpleLight(i_diff, i_spec, origin) ==
    [i_diff |-> i_diff, i_spec |-> i_spec, origin |-> origin]

\* the shadow ray is_lit and PhongMat::is_lit cast from p towards a light
ShadowRay(p, lpos) == Ray(p, Normalized(Sub(lpos, p)))

\* is_lit without the test that skips a light behind the surface
RECURSIVE IsLitScan_NoSkip(_, _, _, _, _)
IsLitScan_NoSkip(p, n, w, ls, i) ==
    IF i > Len(ls) THEN [color |-> None, consulted |-> Len(ls)]
    ELSE IF ~OccludingHit(w, ShadowRay(p, ls[i].origin), ls[i].origin,
                          T_MIN, Infinity)
         THEN [color |-> ls[i].i_diff, consulted |-> i]
         ELSE IsLitScan_NoSkip(p, n, w, ls, i + 1)

\* main.rs is_lit: the scan from light i on: what it returns, and the number of
\* lights looked at
RECURSIVE IsLitScan(_, _, _, _, _)
IsLitScan(p, n, w, ls, i) ==
    IF i > Len(ls) THEN [color |-> None, consulted |-> Len(ls)]
    ELSE IF Dot(n, Sub(ls[i].origin, p)) < 0
         THEN IsLitScan(p, n, w, ls, i + 1)
         ELSE IF ~OccludingHit(w, ShadowRay(p, ls[i].origin), ls[i].origin,
                               T_MIN, Infinity)
              THEN [color |-> ls[i].i_diff, consulted |-> i]
              ELSE IsLitScan(p, n, w, ls, i + 1)

is_lit(p, n, w, ls) == IsLitScan(p, n, w, ls, 1).color

\* PhongMat::is_lit with the sign of the facing test flipped
PhongIsLit_FlippedFacing(p, n, w, lpos) ==
    IF Dot(n, Sub(lpos, p)) > 0 THEN FALSE
    ELSE ~OccludingHit(w, ShadowRay(p, lpos), lpos, T_MIN, Infinity)

\* PhongMat::is_lit
PhongIsLit(p, n, w, lpos) ==
    IF Dot(n, Sub(lpos, p)) < 0 THEN FALSE
    ELSE ~OccludingHit(w, ShadowRay(p, lpos), lpos, T_MIN, Infinity)

-----------------------------------------------------------------------------
(* Material scattering.  A scatter returns None or Some((attenuation,      *)
(* scattered)); the operators give the set of values the random draws can  *)
(* produce.  Of the unit vectors random_in_unit_sphere().normalized() can  *)
(* return, the model keeps the two along the surface normal, which keep    *)
(* the scattered ray on a lattice line; of the points random_in_unit_sphere *)
(* can return it keeps the centre.                                         *)

Some(attenuation, scattered) == [attenuation |-> attenuation, scattered |-> scattered]

RandomUnitVectors(normal) == { normal, Scale(-1, normal) }
RandomInUnitSphere == { Vec(0, 0) }
\* Vec3::near_zero
NearZero(v) == v = Vec(0, 0)

\* Lambertian::scatter and PhongMat::lambertian
LambertianScatter(albedo, rec) ==
    { LET scatter_direction == Add(rec.normal, u)
      IN  Some(albedo, Ray(rec.p, IF NearZero(scatter_direction) THEN rec.normal
                                  ELSE scatter_direction))
      : u \in RandomUnitVectors(rec.normal) }

\* Metal::scatter and PhongMat::specular
MetalScatter(albedo, fuzz, r_in, rec) ==
    { LET scatter_direction == Normalized(Reflect(r_in.direction, rec.normal))
          scattered == Ray(rec.p, Add(scatter_direction, Scale(fuzz, v)))
      IN  IF Dot(scattered.direction, rec.normal) > 0 THEN Some(albedo, scattered)
          ELSE None
      : v \in RandomInUnitSphere }

\* Vec3::refract (Snell's law): ratio * (uv + cos_theta * n) across the surface
\* and -sqrt|1 - |perp|^2| * n along the normal
Refract(uv, n, ratio) ==
    LET cos_theta == IF Dot(Scale(-1, uv), n) < 1 THEN Dot(Scale(-1, uv), n) ELSE 1
        r_out_perp == DivVec(Scale(ratio[1], Add(uv, Scale(cos_theta, n))), ratio[2])
        gap == 1 - LengthPow2(r_out_perp)
        r_out_parallel == Scale(-Sqrt(IF gap < 0 THEN -gap ELSE gap), n)
    IN  Add(r_out_perp, r_out_parallel)

RECURSIVE Pow(_, _)
Pow(x, k) == IF k = 0 THEN 1 ELSE x * Pow(x, k - 1)

\* Dielectric::reflectance for cosine 0 or 1, as <<numerator, denominator>>:
\* r0 + (1 - r0) (1 - cosine)^5 with r0 = ((1 - ref_idx) / (1 + ref_idx))^2
Reflectance(cosine, ref_idx) ==
    LET r0n == (ref_idx[2] - ref_idx[1]) * (ref_idx[2] - ref_idx[1])
        r0d == (ref_idx[2] + ref_idx[1]) * (ref_idx[2] + ref_idx[1])
    IN  <<r0n + (r0d - r0n) * Pow(1 - cosine, 5), r0d>>

\* the values of rng.gen::<f64>() < x for a draw from [0, 1)
DrawBelow(x) == { b \in BOOLEAN : (b => x[1] > 0) /\ (~b => x[1] < x[2]) }

\* Dielectric::scatter
DielectricScatter(m, r_in, rec) ==
    LET refraction_ratio == IF rec.front_face THEN <<m.ir[2], m.ir[1]>> ELSE m.ir
        unit_direction == Normalized(r_in.direction)
        d == Dot(Scale(-1, unit_direction), rec.normal)
        cos_theta == IF d < 1 THEN d ELSE 1
        sin_theta == Sqrt(1 - cos_theta * cos_theta)
        cannot_refract == refraction_ratio[1] * sin_theta > refraction_ratio[2]
    IN  { LET direction == IF cannot_refract \/ will_reflect
                           THEN Reflect(unit_direction, rec.normal)
                           ELSE Refract(unit_direction, rec.normal, refraction_ratio)
          IN  Some(White, Ray(rec.p, direction))
          : will_reflect \in DrawBelow(Reflectance(cos_theta, refraction_ratio)) }

\* one light's term of PhongMat::illumination.  specular is kept in units of
\* B^g; with s = 0.0, as in setup_hollow_sphere, the second summand is the zero
\* colour whatever the unit
PhongTerm(m, light, vpos, rec) ==
    LET viewer_direction == Normalized(Sub(vpos, rec.p))
        L == Normalized(Sub(light.origin, rec.p))
        diffuse == Dot(L, rec.normal)
        R == Normalized(Reflect(L, rec.normal))
        lambda == 1 - Dot(R, viewer_direction)
        tmp == m.invB - lambda
        specular == IF 0 < tmp THEN Pow(tmp, m.g) ELSE 0
    IN  AddColor(ScaleColor(m.d * diffuse, light.i_diff),
                 ScaleColor(m.s * specular, light.i_spec))

\* the sum of PhongMat::illumination over the lights from i on
RECURSIVE PhongIllumination(_, _, _, _, _, _)
PhongIllumination(m, vpos, ls, w, rec, i) ==
    IF i > Len(ls) THEN Black
    ELSE IF PhongIsLit(rec.p, rec.normal, w, ls[i].origin)
         THEN AddColor(PhongTerm(m, ls[i], vpos, rec),
                       PhongIllumination(m, vpos, ls, w, rec, i + 1))
         ELSE PhongIllumination(m, vpos, ls, w, rec, i + 1)

\* PhongMat::scatter = PhongMat::illumination; d_s is 0 or 1
PhongScatter(m, vpos, ls, w, r_in, rec) ==
    LET illumination == PhongIllumination(m, vpos, ls, w, rec, 1)
        sub(diffuse_bounce) == IF diffuse_bounce
                               THEN LambertianScatter(m.albedo, rec)
                               ELSE MetalScatter(m.albedo, m.fuzz, r_in, rec)
    IN  { IF o = None THEN None
          ELSE Some(MulColor(illumination, o.attenuation), o.scattered)
          : o \in UNION { sub(b) : b \in DrawBelow(<<m.d_s, 1>>) } }

\* rec.mat.scatter(r.origin(), lights, world, r, rec): dynamic dispatch
Scatter(m, vpos, ls, w, r_in, rec) ==
    CASE m.kind = "Lambertian" -> LambertianScatter(m.albedo, rec)
      [] m.kind = "Metal" -> MetalScatter(m.albedo, m.fuzz, r_in, rec)
      [] m.kind = "Dielectric" -> DielectricScatter(m, r_in, rec)
      [] m.kind = "Phong" -> PhongScatter(m, vpos, ls, w, r_in, rec)

\* the background of ray_color: (1 - t) white + t (0.5, 0.7, 1.0) with
\* t = 0.5 (unit_direction.y + 1)
Background(r) ==
    LET unit_direction == Normalized(r.direction)
        t2 == unit_direction[2] + 1
    IN  [c |-> <<5 * ((2 - t2) * 10 + t2 * 5), 5 * ((2 - t2) * 10 + t2 * 7),
                 5 * ((2 - t2) * 10 + t2 * 10)>>, e |-> 2]

-----------------------------------------------------------------------------
(* Scenes the specifications draw from *)

\* sequences over S of length at most n
RECURSIVE SeqsUpTo(_, _)
SeqsUpTo(S, n) ==
    IF n = 0 THEN {<<>>}
    ELSE LET shorter == SeqsUpTo(S, n - 1)
         IN  shorter \cup {Append(s, x) : s \in shorter, x \in S}

\* sphere_centre and sphere_phong of setup_hollow_sphere are coincident; the
\* others give an inside-out sphere, a second sphere further along the axis, a
\* sphere the axis is tangent to and one it misses
QuerySpheres ==
    { Sphere(Vec(0, 0), 1, mat_centre),
      Sphere(Vec(0, 0), 1, mat_phong),
      Sphere(Vec(0, 0), -1, mat_left),
      Sphere(Vec(2, 0), 1, mat_left),
      Sphere(Vec(4, 0), 1, mat_right),
      Sphere(Vec(2, 1), 1, mat_centre),
      Sphere(Vec(2, 2), 1, mat_right) }

QueryRays ==
    { Ray(Vec(x, 0), Vec(d, 0)) : x \in {-2, 0, 3, 6}, d \in {1, -1, 2} }

QueryRanges == { <<T_MIN, Infinity>>, <<TScale, 3 * TScale>> }

QueryLights ==
    { SimpleLight(White, White, Vec(6, 0)),
      SimpleLight(Color(5, 5, 5), White, Vec(-2, 0)),
      SimpleLight(Color(2, 2, 2), White, Vec(2, 0)) }

\* surface points and normals handed to the light queries
QueryPoints == { Vec(x, 0) : x \in {-1, 1, 3} }
QueryNormals == { Vec(1, 0), Vec(-1, 0), Vec(0, 1) }

NoQuery == [kind |-> "none"]
NoCalls == [world |-> 0, lights |-> 0, scatter |-> 0]

\* the variables a specification does not use
IdleIntegrator == stack = <<>> /\ ret = None /\ calls = NoCalls
IdleRender == row = 0 /\ computed = <<>> /\ scanline = <<>> /\ emitted = <<>>

-----------------------------------------------------------------------------
(* SpecHit: Sphere::hit and World::hit applied to drawn arguments *)

InitHit ==
    /\ world \in SeqsUpTo(QuerySpheres, MaxWorld)
    /\ lights = <<>>
    /\ pc = "ready"
    /\ \E r \in QueryRays, range \in QueryRanges :
         q = [kind |-> "hit", ray |-> r, t_min |-> range[1], t_max |-> range[2],
              idx |-> 0, lp |-> Vec(0, 0)]
    /\ res = None
    /\ IdleIntegrator /\ IdleRender

CallSphereHit(i) ==
    /\ pc = "ready"
    /\ pc' = "sphere_hit"
    /\ q' = [q EXCEPT !.idx = i]
    /\ res' = SphereHit(world[i], q.ray, q.t_min, q.t_max)
    /\ UNCHANGED <<world, lights, stack, ret, calls, row, computed, scanline, emitted>>

CallWorldHit ==
    /\ pc = "ready"
    /\ pc' = "world_hit"
    /\ res' = WorldHit(world, q.ray, q.t_min, q.t_max)
    /\ UNCHANGED <<world, lights, q, stack, ret, calls, row, computed, scanline, emitted>>

\* light positions handed to World::occluding_hit
QueryLightPositions == { Vec(6, 0), Vec(-2, 0), Vec(2, 0) }

CallOccludingHit(lp) ==
    /\ pc = "ready"
    /\ pc' = "occluding_hit"
    /\ q' = [q EXCEPT !.lp = lp]
    /\ res' = OccludingScan(world, 1, q.ray, lp, q.t_min, q.t_max)
    /\ UNCHANGED <<world, lights, stack, ret, calls, row, computed, scanline, emitted>>

NextHit ==
    \/ \E i \in 1..Len(world) : CallSphereHit(i)
    \/ CallWorldHit
    \/ \E lp \in QueryLightPositions : CallOccludingHit(lp)

SpecHit == InitHit /\ [][NextHit]_vars

-----------------------------------------------------------------------------
(* SpecShadow: is_lit and PhongMat::is_lit applied to drawn arguments *)

\* a sphere that lets light through, two opaque ones on either side of it and
\* an opaque one the axis is tangent to
ShadowSpheres ==
    { Sphere(Vec(2, 0), 1, mat_left),
      Sphere(Vec(4, 0), 1, mat_right),
      Sphere(Vec(0, 0), 1, mat_centre),
      Sphere(Vec(2, 1), 1, mat_phong) }

InitShadow ==
    /\ world \in SeqsUpTo(ShadowSpheres, MaxWorld)
    /\ lights \in SeqsUpTo(QueryLights, MaxLights)
    /\ pc = "ready"
    /\ \E p \in QueryPoints, n \in QueryNormals :
         q = [kind |-> "light", p |-> p, n |-> n, idx |-> 0]
    /\ res = None
    /\ IdleIntegrator /\ IdleRender

CallIsLit ==
    /\ pc = "ready"
    /\ pc' = "is_lit"
    /\ res' = IsLitScan(q.p, q.n, world, lights, 1)
    /\ UNCHANGED <<world, lights, q, stack, ret, calls, row, computed, scanline, emitted>>

CallPhongIsLit(i) ==
    /\ pc = "ready"
    /\ pc' = "phong_is_lit"
    /\ q' = [q EXCEPT !.idx = i]
    /\ res' = PhongIsLit(q.p, q.n, world, lights[i].origin)
    /\ UNCHANGED <<world, lights, stack, ret, calls, row, computed, scanline, emitted>>

NextShadow ==
    \/ CallIsLit
    \/ \E i \in 1..Len(lights) : CallPhongIsLit(i)

SpecShadow == InitShadow /\ [][NextShadow]_vars

-----------------------------------------------------------------------------
(* Spec: one sample of the sampling loop, ray_color(r, world, lights, depth) *)
(* run to completion.  A frame of the stack is one activation of ray_color: *)
(* at says where it stands, rec is the nearest hit, light_color what the    *)
(* gate answered, scattered whether the hit material's scatter was called,  *)
(* attenuation what it returned, val the colour the activation returns.     *)

Pending == [pending |-> TRUE]

Frame(r, depth) ==
    [ray |-> r, depth |-> depth, at |-> "entry", rec |-> None,
     light_color |-> Pending, scattered |-> FALSE, attenuation |-> None,
     val |-> None]

\* a Lambertian and a coincident Phong sphere, a glass and a metal sphere
\* further along the axis, and a metal sphere the axis is tangent to
SceneSpheres ==
    { Sphere(Vec(0, 0), 1, mat_centre),
      Sphere(Vec(0, 0), 1, mat_phong),
      Sphere(Vec(4, 0), 1, mat_left),
      Sphere(Vec(4, 0), 1, mat_right),
      Sphere(Vec(2, 1), 1, mat_right) }

SceneLights ==
    { SimpleLight(White, White, Vec(6, 0)),
      SimpleLight(Color(5, 5, 5), White, Vec(-2, 0)) }

\* rays Camera::get_ray hands to ray_color; their direction is not normalized
CameraRays == { Ray(Vec(x, 0), Vec(d, 0)) : x \in {2, -2}, d \in {1, -1, 2} }

\* the path of one sample: the attenuations of its scatters in order, and how
\* and with which colour its last call ended
NoPath == [attenuations |-> <<>>, end |-> "none", ray |-> Pending, terminal |-> Pending]
Ended(end, r, color) == [res EXCEPT !.end = end, !.ray = r, !.terminal = color]

Init ==
    /\ world \in SeqsUpTo(SceneSpheres, MaxScene)
    /\ lights \in SeqsUpTo(SceneLights, MaxLights)
    /\ pc = "running"
    /\ \E r \in CameraRays, depth \in 0..MaxDepth :
         /\ q = [kind |-> "sample", ray |-> r, depth |-> depth]
         /\ stack = <<Frame(r, depth)>>
    /\ res = NoPath
    /\ ret = None
    /\ calls = NoCalls
    /\ IdleRender

Top == stack[Len(stack)]
SetTop(f) == [stack EXCEPT ![Len(stack)] = f]
Returning(f, val) == [f EXCEPT !.at = "return", !.val = val]

\* a depth test that lets a budget of 0 through
DepthExhaustedTest_Below(depth) == depth < 0
\* if depth <= 0
DepthExhaustedTest(depth) == depth <= 0

\* a gate that never takes the None arm
NoLight_Never(light_color) == FALSE
\* the None arm of the match on is_lit
NoLight(light_color) == light_color = None

\* a recursive call that hands the budget on undiminished
NextDepth_Same(depth) == depth
\* the budget handed to the recursive call
NextDepth(depth) == depth - 1

\* depth <= 0: black, nothing is consulted
DepthExhausted ==
    /\ pc = "running" /\ Top.at = "entry"
    /\ DepthExhaustedTest(Top.depth)
    /\ stack' = SetTop(Returning(Top, Black))
    /\ res' = Ended("exhausted", Top.ray, Black)
    /\ UNCHANGED <<world, lights, pc, q, ret, calls,
                   row, computed, scanline, emitted>>

\* world.hit finds nothing: the background gradient
Miss ==
    /\ pc = "running" /\ Top.at = "entry"
    /\ ~DepthExhaustedTest(Top.depth)
    /\ WorldHit(world, Top.ray, T_MIN, Infinity) = None
    /\ stack' = SetTop(Returning(Top, Background(Top.ray)))
    /\ res' = Ended("miss", Top.ray, Background(Top.ray))
    /\ calls' = [calls EXCEPT !.world = @ + 1]
    /\ UNCHANGED <<world, lights, pc, q, ret, row, computed, scanline, emitted>>

\* world.hit finds the nearest hit
Hit ==
    /\ pc = "running" /\ Top.at = "entry"
    /\ ~DepthExhaustedTest(Top.depth)
    /\ WorldHit(world, Top.ray, T_MIN, Infinity) # None
    /\ stack' = SetTop([Top EXCEPT !.at = "gate",
                                   !.rec = WorldHit(world, Top.ray, T_MIN, Infinity)])
    /\ calls' = [calls EXCEPT !.world = @ + 1]
    /\ UNCHANGED <<world, lights, pc, q, res, ret, row, computed, scanline, emitted>>

\* the gate finds no visible light: black
Unlit ==
    /\ pc = "running" /\ Top.at = "gate"
    /\ LET light_color == is_lit(Top.rec.p, Top.rec.normal, world, lights)
       IN  /\ NoLight(light_color)
           /\ stack' = SetTop(Returning([Top EXCEPT !.light_color = light_color], Black))
    /\ res' = Ended("unlit", Top.ray, Black)
    /\ calls' = [calls EXCEPT !.lights = @ + 1]
    /\ UNCHANGED <<world, lights, pc, q, ret, row, computed, scanline, emitted>>

\* the gate finds a visible light
Lit ==
    /\ pc = "running" /\ Top.at = "gate"
    /\ LET light_color == is_lit(Top.rec.p, Top.rec.normal, world, lights)
       IN  /\ ~NoLight(light_color)
           /\ stack' = SetTop([Top EXCEPT !.at = "scatter", !.light_color = light_color])
    /\ calls' = [calls EXCEPT !.lights = @ + 1]
    /\ UNCHANGED <<world, lights, pc, q, res, ret, row, computed, scanline, emitted>>

\* what rec.mat.scatter can return to the top frame
TopScatter == Scatter(Top.rec.mat, Top.ray.origin, lights, world, Top.ray, Top.rec)

\* an absorbing scatter answered with the background instead of black
Absorbed_Background ==
    /\ pc = "running" /\ Top.at = "scatter"
    /\ None \in TopScatter
    /\ stack' = SetTop(Returning([Top EXCEPT !.scattered = TRUE], Background(Top.ray)))
    /\ res' = Ended("absorbed", Top.ray, Background(Top.ray))
    /\ calls' = [calls EXCEPT !.scatter = @ + 1]
    /\ UNCHANGED <<world, lights, pc, q, ret, row, computed, scanline, emitted>>

\* scatter returns None: black
Absorbed ==
    /\ pc = "running" /\ Top.at = "scatter"
    /\ None \in TopScatter
    /\ stack' = SetTop(Returning([Top EXCEPT !.scattered = TRUE], Black))
    /\ res' = Ended("absorbed", Top.ray, Black)
    /\ calls' = [calls EXCEPT !.scatter = @ + 1]
    /\ UNCHANGED <<world, lights, pc, q, ret, row, computed, scanline, emitted>>

\* scatter returns Some: the recursive call with depth - 1
Scattered ==
    /\ pc = "running" /\ Top.at = "scatter"
    /\ \E o \in TopScatter \ {None} :
         /\ stack' = Append(SetTop([Top EXCEPT !.at = "await", !.scattered = TRUE,
                                               !.attenuation = o.attenuation]),
                            Frame(o.scattered, NextDepth(Top.depth)))
         /\ res' = [res EXCEPT !.attenuations = Append(@, o.attenuation)]
    /\ calls' = [calls EXCEPT !.scatter = @ + 1]
    /\ UNCHANGED <<world, lights, pc, q, ret, row, computed, scanline, emitted>>

\* an inner call returns: attenuation * ray_color(scattered, ..., depth - 1)
Return ==
    /\ pc = "running" /\ Top.at = "return" /\ Len(stack) > 1
    /\ LET caller == stack[Len(stack) - 1]
       IN  stack' = Append(SubSeq(stack, 1, Len(stack) - 2),
                           Returning(caller, MulColor(caller.attenuation, Top.val)))
    /\ UNCHANGED <<world, lights, pc, q, res, ret, calls,
                   row, computed, scanline, emitted>>

\* the outermost call returns to the sampling loop
Finish ==
    /\ pc = "running" /\ Top.at = "return" /\ Len(stack) = 1
    /\ ret' = Top.val
    /\ pc' = "done"
    /\ UNCHANGED <<world, lights, q, res, stack, calls,
                   row, computed, scanline, emitted>>

Next ==
    \/ DepthExhausted
    \/ Miss
    \/ Hit
    \/ Unlit
    \/ Lit
    \/ Absorbed
    \/ Scattered
    \/ Return
    \/ Finish

Spec == Init /\ [][Next]_vars

-----------------------------------------------------------------------------
(* SpecRender: the scanline loop of main.  The closure of into_par_iter().map *)
(* runs once per column on rayon's workers, which finish in any order;       *)
(* collect() builds the Vec<Color> by column index; the for loop prints it.  *)
(* A pixel carries its column i and row j next to its colour.                *)

PixelColors == { Black, White }
Columns == 0..(Width - 1)

InitRender ==
    /\ world = <<>> /\ lights = <<>>
    /\ q = NoQuery /\ res = None
    /\ IdleIntegrator
    /\ pc = "compute"
    /\ row = Height - 1
    /\ computed = <<>>
    /\ scanline = <<>>
    /\ emitted = <<>>

ColumnsOf(pixels) == { pixels[k].i : k \in 1..Len(pixels) }

\* collect() in the order the workers happened to finish
CollectScanline_ArrivalOrder(done) == done
\* collect() of an indexed parallel iterator: element k is column k - 1
CollectScanline(done) ==
    [k \in 1..Width |-> CHOOSE e \in { done[m] : m \in 1..Len(done) } : e.i = k - 1]

\* ((index as f64) + jitter) / ((size - 1) as f64), as a fraction; the jitter
\* is in units of 1/JitterScale
ScreenParam(index, jitter, size) ==
    [num |-> index * JitterScale + jitter, den |-> (size - 1) * JitterScale]

\* rng.gen::<f64>() draws from [0, 1)
Jitters == 0..(JitterScale - 1)

\* a worker runs the closure for column i of the current scanline: it draws the
\* jitter of a sample, hands u and v to cam.get_ray and returns the pixel colour
WorkerFinish(i, random_u, random_v, pixel_color) ==
    /\ pc = "compute"
    /\ i \notin ColumnsOf(computed)
    /\ q' = [kind |-> "get_ray",
             s |-> ScreenParam(i, random_u, Width),
             t |-> ScreenParam(row, random_v, Height)]
    /\ computed' = Append(computed, [i |-> i, j |-> row, color |-> pixel_color])
    /\ UNCHANGED <<world, lights, pc, res, stack, ret, calls, row, scanline, emitted>>

\* every column has been computed: collect() returns the scanline
Collect ==
    /\ pc = "compute"
    /\ ColumnsOf(computed) = Columns
    /\ scanline' = CollectScanline(computed)
    /\ pc' = "emit"
    /\ q' = NoQuery
    /\ UNCHANGED <<world, lights, res, stack, ret, calls, row, computed, emitted>>

\* println! of the next pixel of the scanline
Emit ==
    /\ pc = "emit" /\ scanline # <<>>
    /\ emitted' = Append(emitted, Head(scanline))
    /\ scanline' = Tail(scanline)
    /\ UNCHANGED <<world, lights, pc, q, res, stack, ret, calls, row, computed>>

\* the next j of (0..IMAGE_HEIGHT).rev()
NextRow ==
    /\ pc = "emit" /\ scanline = <<>> /\ row > 0
    /\ row' = row - 1
    /\ computed' = <<>>
    /\ pc' = "compute"
    /\ UNCHANGED <<world, lights, q, res, stack, ret, calls, scanline, emitted>>

\* the loop is over
RenderDone ==
    /\ pc = "emit" /\ scanline = <<>> /\ row = 0
    /\ pc' = "done"
    /\ UNCHANGED <<world, lights, q, res, stack, ret, calls, row, computed, scanline, emitted>>

NextRender ==
    \/ \E i \in Columns, random_u \in Jitters, random_v \in Jitters, c \in PixelColors :
         WorkerFinish(i, random_u, random_v, c)
    \/ Collect
    \/ Emit
    \/ NextRow
    \/ RenderDone

SpecRender == InitRender /\ [][NextRender]_vars

-----------------------------------------------------------------------------
(* Properties of Sphere::hit and World::hit (SpecHit) *)

\* the primitives whose own hit lies in the query's range, and those hits
OwnHit(i) == SphereHit(world[i], q.ray, q.t_min, q.t_max)
Hitters == { i \in 1..Len(world) : OwnHit(i) # None }
SetMin(S) == CHOOSE m \in S : \A x \in S : m <= x
SetMax(S) == CHOOSE m \in S : \A x \in S : m >= x

Perms(n) == { f \in [1..n -> 1..n] : \A i, j \in 1..n : f[i] = f[j] => i = j }
Permuted(w, f) == [i \in 1..Len(w) |-> w[f[i]]]

\* C3: World.hit returns nothing iff no primitive's own hit lies in
\* [t_min, t_max]; otherwise the t it returns is the least t of the primitives'
\* own hits, and every permutation of the container returns the same t.
C3_NearestHit ==
    pc = "world_hit" =>
      /\ (res = None) <=> (Hitters = {})
      /\ res # None => res.t = SetMin({ OwnHit(i).t : i \in Hitters })
      /\ \A f \in Perms(Len(world)) :
           LET other == WorldHit(Permuted(world, f), q.ray, q.t_min, q.t_max)
           IN  /\ (other = None) <=> (res = None)
               /\ other # None => other.t = res.t

\* a nearer primitive is scanned before a farther one that is also in range
C3_Witness ==
    /\ pc = "world_hit" /\ res # None
    /\ \E i, j \in Hitters : i < j /\ OwnHit(i).t < OwnHit(j).t /\ res.t = OwnHit(i).t

\* the primitives whose own hit is at the returned t
Ties == { i \in Hitters : OwnHit(i).t = res.t }

\* C4 as claimed: the returned record is the one of the first primitive in the
\* container among those that intersect at the returned t.
C4_FirstWinsTies ==
    (pc = "world_hit" /\ res # None) => res = OwnHit(SetMin(Ties))

\* C4 amended: a later primitive replaces the candidate when its t is less than
\* or equal to the candidate's, so among the primitives that intersect at the
\* returned t the record is the one of the last in the container.
C4_LastWinsTies ==
    (pc = "world_hit" /\ res # None) => res = OwnHit(SetMax(Ties))

\* two coincident spheres with different materials: the later one is returned
C4_Witness ==
    /\ pc = "world_hit" /\ res # None
    /\ \E i, j \in Ties :
         /\ i < j /\ j = SetMax(Ties)
         /\ world[i].centre = world[j].centre /\ world[i].radius = world[j].radius
         /\ world[i].mat # world[j].mat
         /\ res.mat = world[j].mat

\* C5 as claimed: front_face is true iff the ray direction and the returned
\* normal have a negative dot product.
C5_FrontFaceIffReturnedNormal ==
    (pc \in {"sphere_hit", "world_hit"} /\ res # None) =>
      (res.front_face <=> Dot(q.ray.direction, res.normal) < 0)

\* C5 amended: front_face is true iff the ray direction and the OUTWARD normal
\* (p - centre) / radius have a negative dot product; the returned normal is the
\* outward normal on a front face and its negation otherwise, so its dot product
\* with the ray direction is never positive, and negative on every front face.
C5_FrontFaceIffOutwardNormal ==
    /\ (pc = "sphere_hit" /\ res # None) =>
         LET outward == DivVec(Sub(res.p, world[q.idx].centre), world[q.idx].radius)
         IN  /\ res.front_face <=> Dot(q.ray.direction, outward) < 0
             /\ res.normal = IF res.front_face THEN outward ELSE Scale(-1, outward)
    /\ (pc \in {"sphere_hit", "world_hit"} /\ res # None) =>
         /\ Dot(q.ray.direction, res.normal) <= 0
         /\ res.front_face => Dot(q.ray.direction, res.normal) < 0

\* a back-face hit: the normal was flipped against the ray
C5_Witness ==
    /\ pc = "sphere_hit" /\ res # None
    /\ ~res.front_face
    /\ Dot(q.ray.direction, res.normal) < 0

-----------------------------------------------------------------------------
(* Properties of the shadow test *)

\* C7: World.occluding_hit is decided by the first primitive in container order
\* whose hit lies in [t_min, t_max] and by it alone: the answer is true iff that
\* hit's material has occlusion 0 and ray.direction . (light_pos - hit_point) > 0,
\* no primitive after it is consulted, and the answer is false when none hits.
C7_FirstHitDecides ==
    pc = "occluding_hit" =>
      IF Hitters = {}
      THEN res = [blocked |-> FALSE, consulted |-> Len(world)]
      ELSE LET first == SetMin(Hitters)
               rec == OwnHit(first)
           IN  /\ res.blocked = (rec.mat.occlusion = 0
                                 /\ Dot(q.ray.direction, Sub(q.lp, rec.p)) > 0)
               /\ res.consulted = first

\* the first hitter does not block although a later primitive would
C7_Witness ==
    /\ pc = "occluding_hit" /\ ~res.blocked
    /\ \E i, j \in Hitters :
         /\ i = SetMin(Hitters) /\ i < j
         /\ OwnHit(j).mat.occlusion = 0
         /\ Dot(q.ray.direction, Sub(q.lp, OwnHit(j).p)) > 0
    /\ res.consulted < Len(world)

\* the shadow ray towards light i of the drawn surface point, and its hits
LightRay(i) == ShadowRay(q.p, lights[i].origin)
ShadowHit(k, i) == SphereHit(world[k], LightRay(i), T_MIN, Infinity)
Behind(i) == Dot(q.n, Sub(lights[i].origin, q.p)) < 0
\* an opaque primitive intersects the shadow ray between the point and light i
OpaqueBetween(i) ==
    \E k \in 1..Len(world) :
      /\ ShadowHit(k, i) # None
      /\ world[k].mat.occlusion = 0
      /\ Dot(LightRay(i).direction, Sub(lights[i].origin, ShadowHit(k, i).p)) > 0
NoIntersection(i) == \A k \in 1..Len(world) : ShadowHit(k, i) = None

\* C6 as claimed: a light with an opaque primitive between it and the surface
\* point is reported as not visible, whatever the container holds and in
\* whatever order; a light whose shadow ray meets no primitive and that is not
\* behind the surface is reported as visible.
C6_ShadowTest ==
    /\ pc = "phong_is_lit" =>
         /\ OpaqueBetween(q.idx) => res = FALSE
         /\ (NoIntersection(q.idx) /\ ~Behind(q.idx)) => res = TRUE
    /\ pc = "is_lit" =>
         /\ (\A i \in 1..Len(lights) : OpaqueBetween(i) \/ Behind(i))
              => res.color = None
         /\ (\E i \in 1..Len(lights) : NoIntersection(i) /\ ~Behind(i))
              => res.color # None

\* what the occlusion query answers for light i
Blocked(i) == OccludingHit(world, LightRay(i), lights[i].origin, T_MIN, Infinity)
Visible == { i \in 1..Len(lights) : ~Behind(i) /\ ~Blocked(i) }

\* C8: is_lit scans the lights in container order, skips those behind the
\* surface and returns the diffuse intensity of the first remaining light the
\* occlusion query does not report blocked; it returns nothing iff every light
\* is behind the surface or blocked, and it looks at no light after that one.
C8_FirstVisibleLight ==
    pc = "is_lit" =>
      /\ (res.color = None) <=> (Visible = {})
      /\ Visible = {} => res.consulted = Len(lights)
      /\ Visible # {} => /\ res.color = lights[SetMin(Visible)].i_diff
                         /\ res.consulted = SetMin(Visible)

\* two visible lights of different intensity: the first one's is returned
C8_Witness ==
    /\ pc = "is_lit"
    /\ \E i, j \in Visible :
         /\ i < j /\ lights[i].i_diff # lights[j].i_diff
         /\ res.color = lights[i].i_diff
         /\ res.consulted = i

-----------------------------------------------------------------------------
(* Properties of Sphere::hit alone (SpecHit) *)

\* TScale times the vector from the sphere's centre to the ray's point at t
OffCentre(s, r, t) ==
    Add(Scale(TScale, Sub(r.origin, s.centre)), Scale(t, r.direction))
\* the ray's point at t lies on the sphere
OnSphere(s, r, t) ==
    LengthPow2(OffCentre(s, r, t)) = s.radius * s.radius * TScale * TScale
Discriminant(s, r) ==
    LET x == Sub(r.origin, s.centre)
    IN  Dot(r.direction, x) * Dot(r.direction, x)
          - LengthPow2(r.direction) * (LengthPow2(x) - s.radius * s.radius)
SmallerRoot(s, r) ==
    Root(Dot(r.direction, Sub(r.origin, s.centre)), Sqrt(Discriminant(s, r)),
         LengthPow2(r.direction), -1)
LargerRoot(s, r) ==
    Root(Dot(r.direction, Sub(r.origin, s.centre)), Sqrt(Discriminant(s, r)),
         LengthPow2(r.direction), 1)
InRange(t) == q.t_min <= t /\ t <= q.t_max

\* C11: Sphere.hit returns nothing when the discriminant is negative; otherwise
\* the two roots are the parameters at which the ray meets the sphere, and it
\* returns the smaller one when that lies in [t_min, t_max], else the larger one
\* when that lies in [t_min, t_max], else nothing.  A returned record has
\* t_min <= t <= t_max and its point is the ray's point at t.
C11_SphereHitRoots ==
    pc = "sphere_hit" =>
      LET s == world[q.idx]
          r == q.ray
      IN  /\ Discriminant(s, r) < 0 => res = None
          /\ Discriminant(s, r) >= 0 =>
               LET lo == SmallerRoot(s, r)
                   hi == LargerRoot(s, r)
               IN  /\ lo <= hi /\ OnSphere(s, r, lo) /\ OnSphere(s, r, hi)
                   /\ InRange(lo) => (res # None /\ res.t = lo)
                   /\ (~InRange(lo) /\ InRange(hi)) => (res # None /\ res.t = hi)
                   /\ (~InRange(lo) /\ ~InRange(hi)) => res = None
          /\ res # None => (InRange(res.t) /\ res.p = At(r, res.t)
                            /\ OnSphere(s, r, res.t))

\* the smaller root is out of range and the larger one, a different point of
\* the sphere, is returned
C11_Witness ==
    /\ pc = "sphere_hit" /\ res # None
    /\ Discriminant(world[q.idx], q.ray) > 0
    /\ ~InRange(SmallerRoot(world[q.idx], q.ray))
    /\ res.t = LargerRoot(world[q.idx], q.ray)
    /\ res.t # SmallerRoot(world[q.idx], q.ray)

-----------------------------------------------------------------------------
(* Properties of ray_color (Spec) *)

\* C1: ray_color called with depth 0 returns black, for every ray, world and
\* lighting drawn, and consults neither the world nor the lights nor a material
\* on the way: an activation with budget 0 goes from its entry straight to
\* returning black.
C1_DepthZeroIsBlack ==
    /\ \A k \in 1..Len(stack) :
         stack[k].depth = 0 =>
           /\ stack[k].at \in {"entry", "return"}
           /\ stack[k].rec = None /\ stack[k].light_color = Pending
           /\ ~stack[k].scattered
           /\ stack[k].at = "return" => stack[k].val = Black
    /\ q.depth = 0 => /\ calls = NoCalls
                      /\ pc = "done" => ret = Black

\* a call with depth 0 has returned in a scene where the ray meets a lit sphere
C1_Witness ==
    /\ pc = "done" /\ q.depth = 0 /\ ret = Black
    /\ LET rec == WorldHit(world, q.ray, T_MIN, Infinity)
       IN  rec # None /\ is_lit(rec.p, rec.normal, world, lights) # None

\* the budget relation along the stack, and the count of scatter calls
BudgetInvariant ==
    /\ Len(stack) <= q.depth + 1
    /\ \A k \in 1..Len(stack) : stack[k].depth = q.depth - (k - 1) /\ stack[k].depth >= 0
    /\ calls.scatter <= q.depth
    /\ Cardinality({ k \in 1..Len(stack) : stack[k].scattered }) <= calls.scatter

\* a bound on the steps ray_color has left: an activation with budget d at its
\* entry needs at most 4 d + 2 steps, one that waits for its callee needs 1
StepsLeft ==
    IF pc = "done" THEN 0
    ELSE (Len(stack) - 1)
         + CASE Top.at = "entry" -> 4 * Top.depth + 2
             [] Top.at = "gate" -> 4 * Top.depth + 1
             [] Top.at = "scatter" -> 4 * Top.depth
             [] Top.at = "return" -> 1

\* the guards of Next: some step of ray_color can be taken
CanStep ==
    /\ pc = "running" /\ stack # <<>>
    /\ \/ Top.at = "entry"
       \/ Top.at = "gate" /\ Top.rec # None
       \/ Top.at = "scatter" /\ Top.rec # None /\ TopScatter # {}
       \/ Top.at = "return"

\* C2: ray_color started with budget D terminates whatever the scene and the
\* random draws: every recursive call gets the caller's budget less 1, no
\* budget is below 0, scatter is invoked at most D times in one sample, and
\* every step, of which there is one until the call has returned, takes the
\* bound on the remaining steps down.
C2_BoundedRecursion ==
    /\ [](BudgetInvariant /\ StepsLeft >= 0 /\ (pc = "done" \/ CanStep))
    /\ [][StepsLeft' < StepsLeft]_vars

\* the budget has been used up: D scatters, and the innermost call has budget 0
C2_Witness ==
    /\ pc = "running" /\ q.depth = MaxDepth
    /\ calls.scatter = q.depth
    /\ Len(stack) = q.depth + 1 /\ Top.depth = 0

\* C9: when the nearest hit exists and the gate finds no visible light, the
\* activation returns black and the hit material's scatter is not invoked for
\* that hit; scatter is invoked only after the gate has answered with a light.
C9_GateBeforeScatter ==
    \A k \in 1..Len(stack) :
      LET f == stack[k]
      IN  /\ f.light_color # Pending =>
               /\ f.rec # None
               /\ f.light_color = is_lit(f.rec.p, f.rec.normal, world, lights)
          /\ f.light_color = None => (~f.scattered /\ f.at = "return" /\ f.val = Black)
          /\ f.at \in {"scatter", "await"} => f.light_color \notin {Pending, None}
          /\ f.scattered => f.light_color \notin {Pending, None}

\* an unlit hit on a sphere of the given kind of material has returned black
UnlitHitOf(kind) ==
    /\ Top.at = "return" /\ Top.rec # None /\ Top.light_color = None
    /\ Top.rec.mat.kind = kind /\ Top.val = Black /\ lights # <<>>
C9_Witness == pc = "running" /\ UnlitHitOf("Phong")

-----------------------------------------------------------------------------
(* Properties of the scanline loop (SpecRender) *)

\* C10: in whatever order the workers finish the columns of a scanline, the
\* pixel lines come out in row-major order, top row (largest j) first and
\* columns left to right, each pixel once, with the colour computed for it; no
\* pixel of a row is printed before every column of that row has been computed,
\* nor after a pixel of a later row.
C10_RowMajorOutput ==
    /\ \A k \in 1..Len(emitted) :
         /\ emitted[k].j = Height - 1 - ((k - 1) \div Width)
         /\ emitted[k].i = (k - 1) % Width
         /\ emitted[k].j = row => \E m \in 1..Len(computed) : computed[m] = emitted[k]
         /\ emitted[k].j >= row
    /\ \A k, l \in 1..Len(emitted) : k < l => emitted[k].j >= emitted[l].j
    /\ Len(emitted) > (Height - 1 - row) * Width => ColumnsOf(computed) = Columns
    /\ Len(emitted) <= (Height - row) * Width
    /\ pc = "done" => Len(emitted) = Width * Height

\* the second scanline is being printed after its last column finished first
C10_Witness ==
    /\ pc = "emit" /\ row = Height - 2
    /\ computed[1].i = Width - 1
    /\ Len(emitted) = Width + 1

-----------------------------------------------------------------------------
(* The colour of a sample (Spec) *)

\* the component-wise product of the attenuations, in path order, and a colour
RECURSIVE PathProduct(_, _)
PathProduct(attenuations, color) ==
    IF attenuations = <<>> THEN color
    ELSE MulColor(Head(attenuations), PathProduct(Tail(attenuations), color))

\* C13: the colour ray_color returns for a sample is the product of the
\* attenuations of the scatters along its path and a terminal colour.  The
\* terminal colour is the background gradient only when the last ray of the path
\* hits nothing while budget remains; a path that ends by depth exhaustion, by
\* an unlit hit or by an absorbing scatter ends in black and the sample is
\* black.  So a sample that is not black has a ray that misses every primitive.
C13_SampleColour ==
    pc = "done" =>
      /\ res.end \in {"miss", "exhausted", "unlit", "absorbed"}
      /\ ret = PathProduct(res.attenuations, res.terminal)
      /\ res.end = "miss" =>
           /\ WorldHit(world, res.ray, T_MIN, Infinity) = None
           /\ res.terminal = Background(res.ray)
           /\ Len(res.attenuations) < q.depth
      /\ res.end = "exhausted" =>
           (Len(res.attenuations) = q.depth /\ res.terminal = Black)
      /\ res.end = "unlit" =>
           LET rec == WorldHit(world, res.ray, T_MIN, Infinity)
           IN  /\ rec # None
               /\ is_lit(rec.p, rec.normal, world, lights) = None
               /\ res.terminal = Black
      /\ res.end = "absorbed" =>
           /\ WorldHit(world, res.ray, T_MIN, Infinity) # None
           /\ res.terminal = Black
      /\ res.end # "miss" => IsBlack(ret)
      /\ ~IsBlack(ret) =>
           (res.end = "miss" /\ WorldHit(world, res.ray, T_MIN, Infinity) = None)

\* a sample that scattered and then left the scene came back with a colour
C13_Witness ==
    /\ pc = "done" /\ ~IsBlack(ret)
    /\ Len(res.attenuations) >= 2 /\ res.end = "miss"

-----------------------------------------------------------------------------
(* The gate of ray_color and the lighting of PhongMat (Spec) *)

\* the lights that pass PhongMat::is_lit for the hit of an activation
PhongLit(f) ==
    { i \in 1..Len(lights) :
        PhongIsLit(f.rec.p, f.rec.normal, world, lights[i].origin) }
\* L . n of PhongMat::illumination for light i
DiffuseFactor(f, i) ==
    Dot(Normalized(Sub(lights[i].origin, f.rec.p)), f.rec.normal)

\* C14: whenever ray_color invokes the scatter of a Phong material for a hit,
\* that is after its gate found a visible light, at least one light passes
\* PhongMat::is_lit for the same point and normal, the first of them being the
\* light the gate answered with; and every light that passes has L . n >= 0.
C14_GateAgreesWithPhong ==
    \A k \in 1..Len(stack) :
      LET f == stack[k]
      IN  (f.rec # None /\ f.rec.mat.kind = "Phong"
             /\ (f.at \in {"scatter", "await"} \/ f.scattered)) =>
            /\ PhongLit(f) # {}
            /\ f.light_color = lights[SetMin(PhongLit(f))].i_diff
            /\ \A i \in PhongLit(f) : DiffuseFactor(f, i) >= 0

\* scatter has been invoked on a Phong hit that one light reaches and another,
\* behind the surface or occluded, does not
C14_Witness ==
    /\ pc = "running" /\ Top.rec # None /\ Top.rec.mat.kind = "Phong"
    /\ Top.scattered
    /\ Len(lights) = 2 /\ Cardinality(PhongLit(Top)) = 1
    /\ \A i \in PhongLit(Top) : DiffuseFactor(Top, i) > 0

\* C12 as claimed: for every pixel of the image and every jitter in [0, 1), both
\* screen-space parameters handed to Camera.get_ray lie in [0, 1].
C12_ScreenParamsInUnitInterval ==
    q.kind = "get_ray" =>
      /\ 0 <= q.s.num /\ q.s.num <= q.s.den
      /\ 0 <= q.t.num /\ q.t.num <= q.t.den

====
